---- MODULE Spec2Model ----
(***************************************************************************)
(* Model of the NTFP valuation pipeline (geo-ntfp).                        *)
(*                                                                         *)
(*   ntfp_functions.py  the seven stage functions                          *)
(*   ntfp_tasks.py      the four task functions that call them             *)
(*   run_ntfp.py        the script that builds and executes the task tree  *)
(*                                                                         *)
(* Three specifications share the module:                                  *)
(*   SpecMask  forest_mask_op applied to a block of land-cover pixels      *)
(*   SpecArea  area_by_country applied to drawn zonal statistics, country  *)
(*             layer and value table                                       *)
(*   SpecPipe  the working directory and the project object while the      *)
(*             task functions and the script run                           *)
(***************************************************************************)
EXTENDS Integers, Sequences, FiniteSets, TLC

VARIABLES
  lulc_array,    \* SpecMask: the block of land-cover pixels handed to forest_mask_op
  forest_array,  \* SpecMask: the block forest_mask_op returned, <<>> before the call
  area_in,       \* SpecArea: the inputs area_by_country loads
  area_out,      \* SpecArea: what area_by_country did (raised / wrote df_final)
  fs,            \* SpecPipe: path -> content of the file, Absent if there is none
  written_in,    \* SpecPipe: path -> the run in which a stage last wrote it, 0 if none
  p,             \* SpecPipe: the project object, attribute -> path, Unset if not set
  pc,            \* SpecPipe: the task or stage call that runs next, or how the run ended
  run,           \* SpecPipe: the number of runs started
  edits,         \* SpecPipe: the number of changes made to the files between runs
  executed,      \* SpecPipe: the task functions entered in the current run, in order
  task_tree,     \* SpecPipe: the tasks added to the project object, in order
  err,           \* SpecPipe: the task that raised and its exception
  rerun          \* SpecPipe: the current run started right after a complete run

maskVars == <<lulc_array, forest_array>>
areaVars == <<area_in, area_out>>
pipeVars == <<fs, written_in, p, pc, run, edits, executed, task_tree, err, rerun>>
vars == <<maskVars, areaVars, pipeVars>>

(***************************************************************************)
(* Bounds                                                                  *)
(***************************************************************************)
MaxPixelValue == 255
BlockLen == 1

PixelValues == 0..MaxPixelValue

(***************************************************************************)
(* create_forest_mask: the pixel operation                                 *)
(***************************************************************************)
\* ndarray.astype(np.uint8): the value modulo 2^8
astype_uint8(x) == x % 256

\* a faulty variant of forest_mask_op: the lower bound taken as exclusive
forest_mask_op_exclusive(arr) ==
  [i \in DOMAIN arr |->
     astype_uint8(IF (arr[i] > 50) /\ (arr[i] <= 90) THEN 1 ELSE 0)]

\* np.where((lulc_array >= 50) & (lulc_array <= 90), 1, 0).astype(np.uint8)
forest_mask_op(arr) ==
  [i \in DOMAIN arr |->
     astype_uint8(IF (arr[i] >= 50) /\ (arr[i] <= 90) THEN 1 ELSE 0)]

\* the state of the variables SpecMask does not use
MaskIdle == lulc_array = <<>> /\ forest_array = <<>>

MaskInit ==
  /\ lulc_array \in [1..BlockLen -> PixelValues]
  /\ forest_array = <<>>

\* raster_calculator_hb hands a block to forest_mask_op and stores the result
ApplyForestMaskOp ==
  /\ lulc_array # <<>>
  /\ forest_array = <<>>
  /\ forest_array' = forest_mask_op(lulc_array)
  /\ UNCHANGED <<lulc_array, areaVars, pipeVars>>


(***************************************************************************)
(* area_by_country: data frames                                            *)
(*                                                                         *)
(* A numeric cell is a set holding at most one number: {} is NaN / None.   *)
(* A label cell is a string; NoLabel is the missing label (NaN).           *)
(***************************************************************************)
NaN == {}
notna(x) == x # NaN
Val(x) == CHOOSE n \in x : TRUE
Times(a, b) == {x * y : x \in a, y \in b}
NoLabel == "nan"

LabelCol == "iso3_r250_label"
IdCol == "iso3_r250_id"
NameCol == "iso3_r250_name"
RateCol == "2019"

\* the order in which groupby(sort=True) emits its keys
LabelOrder == <<"BRA", "COL", "PER">>

\* the text of the cells of column '2019' that parse as a number
NumericText == ("0" :> 0) @@ ("5" :> 5) @@ ("1000" :> 1000)

\* pd.to_numeric(cell, errors='coerce'): the number, NaN for any other text
to_numeric(cell) ==
  IF cell \in DOMAIN NumericText THEN {NumericText[cell]} ELSE NaN

\* Series.fillna(0)
fillna0(x) == IF notna(x) THEN x ELSE {0}

\* the exceptions area_by_country can end with
NoError ==
  [type |-> "", table |-> "", columns |-> {}, lists_available |-> FALSE,
   available |-> {}]
\* ValueError(f"{table} missing '{column}' column. Available: {available}")
ValueError(table, column, available) ==
  [type |-> "ValueError", table |-> table, columns |-> {column},
   lists_available |-> TRUE, available |-> available]
\* pandas' KeyError for a column lookup: it names the missing column(s) only
KeyError(columns) ==
  [type |-> "KeyError", table |-> "", columns |-> columns,
   lists_available |-> FALSE, available |-> {}]

\* the sum of column 'sum' over the features labelled key, NaN skipped
RECURSIVE group_sum(_, _, _, _)
group_sum(labels, stats_list, key, i) ==
  IF i > Len(labels) THEN 0
  ELSE (IF labels[i] = key /\ notna(stats_list[i].sum)
          THEN Val(stats_list[i].sum) ELSE 0)
       + group_sum(labels, stats_list, key, i + 1)

\* the sum of column 'count' over the features labelled key
RECURSIVE group_count(_, _, _, _)
group_count(labels, stats_list, key, i) ==
  IF i > Len(labels) THEN 0
  ELSE (IF labels[i] = key THEN stats_list[i].count ELSE 0)
       + group_count(labels, stats_list, key, i + 1)

\* df_stats.groupby('iso3_r250_label', as_index=False).agg(sum, sum):
\* one row per label that occurs, in key order; NaN labels are left out
RECURSIVE groupby_agg(_, _, _)
groupby_agg(labels, stats_list, k) ==
  IF k > Len(LabelOrder) THEN <<>>
  ELSE (IF \E i \in DOMAIN labels : labels[i] = LabelOrder[k]
          THEN << [iso3_r250_label |-> LabelOrder[k],
                   sum |-> {group_sum(labels, stats_list, LabelOrder[k], 1)},
                   count |-> group_count(labels, stats_list, LabelOrder[k], 1)] >>
          ELSE <<>>)
       \o groupby_agg(labels, stats_list, k + 1)

\* abs(raster_info['pixel_size'][0] * raster_info['pixel_size'][1])
pixel_area_m2(pixel_size) ==
  IF pixel_size[1] * pixel_size[2] < 0
    THEN 0 - (pixel_size[1] * pixel_size[2])
    ELSE pixel_size[1] * pixel_size[2]

\* pixel_area_m2 / 10000.0 (the pixel sizes drawn make the quotient exact)
pixel_area_ha(pixel_size) == pixel_area_m2(pixel_size) \div 10000

\* a faulty variant of area_table: the groups are not summed, every feature keeps its row
area_table_ungrouped(labels, stats_list, pixel_size) ==
  [i \in DOMAIN labels |->
     [iso3_r250_label |-> labels[i],
      sum |-> stats_list[i].sum,
      count |-> stats_list[i].count,
      forest_pixel_count |-> Val(fillna0(stats_list[i].sum)),
      forest_area_ha |-> Val(fillna0(stats_list[i].sum)) * pixel_area_ha(pixel_size)]]

\* df_stats after aggregation and the area calculation
area_table(labels, stats_list, pixel_size) ==
  LET agg == groupby_agg(labels, stats_list, 1)
  IN [i \in DOMAIN agg |->
        [iso3_r250_label |-> agg[i].iso3_r250_label,
         sum |-> agg[i].sum,
         count |-> agg[i].count,
         forest_pixel_count |-> Val(fillna0(agg[i].sum)),
         forest_area_ha |-> Val(fillna0(agg[i].sum)) * pixel_area_ha(pixel_size)]]


\* df_price[df_price['iso3_r250_label'].notna()] with column value_per_hectare
\* = pd.to_numeric(df_price_clean['2019'], errors='coerce')
price_clean(rows) ==
  LET kept == SelectSeq(rows, LAMBDA r : r.iso3_r250_label # NoLabel)
  IN [j \in DOMAIN kept |->
        [iso3_r250_id |-> kept[j].iso3_r250_id,
         iso3_r250_label |-> kept[j].iso3_r250_label,
         iso3_r250_name |-> kept[j].iso3_r250_name,
         value_per_hectare |-> to_numeric(kept[j].y2019)]]

\* the rows of the merge that one row of the left table gives
merge_row(l, right) ==
  LET m == SelectSeq(right, LAMBDA r : r.iso3_r250_label = l.iso3_r250_label)
  IN [j \in DOMAIN m |->
        [iso3_r250_id |-> m[j].iso3_r250_id,
         iso3_r250_label |-> l.iso3_r250_label,
         iso3_r250_name |-> m[j].iso3_r250_name,
         forest_area_ha |-> l.forest_area_ha,
         value_per_hectare |-> m[j].value_per_hectare]]

\* a faulty variant of merge: a left join whose unmatched rows get a rate of zero
RECURSIVE merge_left_zero(_, _, _)
merge_left_zero(left, right, i) ==
  IF i > Len(left) THEN <<>>
  ELSE (IF merge_row(left[i], right) = <<>>
          THEN << [iso3_r250_id |-> 0,
                   iso3_r250_label |-> left[i].iso3_r250_label,
                   iso3_r250_name |-> "",
                   forest_area_ha |-> left[i].forest_area_ha,
                   value_per_hectare |-> {0}] >>
          ELSE merge_row(left[i], right))
       \o merge_left_zero(left, right, i + 1)

\* pd.merge(df_stats[[...]], df_price_clean[[...]], on='iso3_r250_label',
\* how='inner'): every pair of a left and a right row with the same label
RECURSIVE merge(_, _, _)
merge(left, right, i) ==
  IF i > Len(left) THEN <<>>
  ELSE merge_row(left[i], right) \o merge(left, right, i + 1)

\* df_final['ntfp'] = df_final['forest_area_ha'] * df_final['value_per_hectare']
with_ntfp(df) ==
  [i \in DOMAIN df |->
     [iso3_r250_id |-> df[i].iso3_r250_id,
      iso3_r250_label |-> df[i].iso3_r250_label,
      iso3_r250_name |-> df[i].iso3_r250_name,
      forest_area_ha |-> df[i].forest_area_ha,
      value_per_hectare |-> df[i].value_per_hectare,
      ntfp |-> Times({df[i].forest_area_ha}, df[i].value_per_hectare)]]

\* a faulty variant of value_filter: the filter (ntfp > 0) & ntfp.notna()
value_filter_positive(df) ==
  SelectSeq(df, LAMBDA r : notna(r.ntfp) /\ Val(r.ntfp) > 0)

\* df_final[df_final['ntfp'].notna()]
value_filter(df) == SelectSeq(df, LAMBDA r : notna(r.ntfp))

\* what a call of area_by_country leaves: how it ended, the frames it built
\* and whether df_final.to_csv(out_csv_path) was reached
Pending ==
  [state |-> "pending", error |-> NoError, df_stats |-> <<>>,
   df_merged |-> <<>>, df_final |-> <<>>, written |-> FALSE]
Raised(e, stats) ==
  [state |-> "raised", error |-> e, df_stats |-> stats,
   df_merged |-> <<>>, df_final |-> <<>>, written |-> FALSE]
Returned(stats, merged, final) ==
  [state |-> "returned", error |-> NoError, df_stats |-> stats,
   df_merged |-> merged, df_final |-> final, written |-> TRUE]

\* area_by_country from "Load data" on: gdf_columns and labels are the country
\* layer, stats_list what zonal_stats returned for its features, df_price the
\* value table, pixel_size the raster's pixel size
area_by_country_frames(gdf_columns, labels, stats_list, df_price, pixel_size) ==
  IF LabelCol \notin gdf_columns
    THEN Raised(ValueError("Vector", LabelCol, gdf_columns), <<>>)
  ELSE IF LabelCol \notin df_price.columns
    THEN Raised(ValueError("CSV", LabelCol, df_price.columns), <<>>)
  ELSE
    LET df_stats == area_table(labels, stats_list, pixel_size)
    IN IF RateCol \notin df_price.columns
         THEN Raised(KeyError({RateCol}), df_stats)
       ELSE IF {IdCol, NameCol} \ df_price.columns # {}
         THEN Raised(KeyError({IdCol, NameCol} \ df_price.columns), df_stats)
       ELSE
         LET df_merged == merge(df_stats, price_clean(df_price.rows), 1)
             df_final == value_filter(with_ntfp(df_merged))
         IN Returned(df_stats, df_merged, df_final)

(***************************************************************************)
(* SpecArea: area_by_country on drawn inputs                               *)
(***************************************************************************)
MaxFeatures == 2
MaxPriceRows == 2

\* what zonal_stats returns for one feature: no valid pixel, or a pixel sum
StatChoices ==
  { [sum |-> NaN, count |-> 0],
    [sum |-> {100}, count |-> 100],
    [sum |-> {150}, count |-> 150] }

FeatureChoices ==
  { [label |-> "BRA", stat |-> st] : st \in StatChoices }
  \cup { [label |-> "COL", stat |-> [sum |-> {100}, count |-> 100]],
         [label |-> NoLabel, stat |-> [sum |-> {150}, count |-> 150]] }

PriceRowChoices ==
  { [iso3_r250_id |-> 76, iso3_r250_label |-> "BRA",
     iso3_r250_name |-> "Brazil", y2019 |-> t] : t \in {"1000", "0", "n/a"} }
  \cup { [iso3_r250_id |-> 170, iso3_r250_label |-> "COL",
          iso3_r250_name |-> "Colombia", y2019 |-> "5"],
         [iso3_r250_id |-> 604, iso3_r250_label |-> "PER",
          iso3_r250_name |-> "Peru", y2019 |-> "1000"],
         [iso3_r250_id |-> 0, iso3_r250_label |-> NoLabel,
          iso3_r250_name |-> "", y2019 |-> "1000"] }

GdfColumns == {"geometry", LabelCol}
CsvColumns == {IdCol, LabelCol, NameCol, RateCol}

\* the column sets drawn: all present, or one expected column absent
ColumnChoices ==
  { <<GdfColumns, CsvColumns>>, <<GdfColumns \ {LabelCol}, CsvColumns>> }
  \cup { <<GdfColumns, CsvColumns \ {c}>> : c \in CsvColumns }

PixelSizeChoices == { <<300, -300>>, <<100, -100>> }

AreaIdle == area_in = <<>> /\ area_out = Pending

AreaInit ==
  /\ \E n \in 1..MaxFeatures, m \in 0..MaxPriceRows :
       \E features \in [1..n -> FeatureChoices],
          rows \in [1..m -> PriceRowChoices],
          cols \in ColumnChoices,
          pixel_size \in PixelSizeChoices :
         area_in = [gdf_columns |-> cols[1],
                    features |-> features,
                    df_price |-> [columns |-> cols[2], rows |-> rows],
                    pixel_size |-> pixel_size]
  /\ area_out = Pending

\* one call of area_by_country whose output path does not exist
CallAreaByCountry ==
  /\ area_in # <<>>
  /\ area_out.state = "pending"
  /\ area_out' = area_by_country_frames(
                   area_in.gdf_columns,
                   [i \in DOMAIN area_in.features |-> area_in.features[i].label],
                   [i \in DOMAIN area_in.features |-> area_in.features[i].stat],
                   area_in.df_price,
                   area_in.pixel_size)
  /\ UNCHANGED <<area_in, maskVars, pipeVars>>

(***************************************************************************)
(* The working directory: files and their contents                         *)
(*                                                                         *)
(* A raster is a grid of GridSize x GridSize cells, numbered row by row;   *)
(* a geometry is the set of cells whose centre it covers.                  *)
(***************************************************************************)
GridSize == 4
MaxRuns == 2
MaxEdits == 2

Cells == 1..(GridSize * GridSize)
Row(c) == ((c - 1) \div GridSize) + 1
Col(c) == ((c - 1) % GridSize) + 1

Absent == [kind |-> "absent"]
Raster(px, nodata, pixel_size, crs) ==
  [kind |-> "raster", px |-> px, nodata |-> nodata,
   pixel_size |-> pixel_size, crs |-> crs]
Vector(columns, features, crs) ==
  [kind |-> "vector", columns |-> columns, features |-> features, crs |-> crs]
Table(columns, rows) ==
  [kind |-> "table", columns |-> columns, rows |-> rows]

\* the source files the project object points at (run_ntfp.py, "Set model paths")
SourcePath ==
  [raw_lulc_path |-> "lulc_esa_2020.tif",
   roads_shp |-> "globalroads.shp",
   rivers_shp |-> "ne_10m_rivers_lake_centerlines.shp",
   countries_shp |-> "ee_r264_correspondence.gpkg",
   value_csv |-> "nontimber_price_iucn.csv"]

\* the attributes the task functions set: os.path.join(p.project_dir, name)
OutputPath ==
  [forest_tif_path |-> "lulc_forest_50_90.tif",
   roads_reproj |-> "roads_proj.gpkg",
   rivers_reproj |-> "rivers_proj.gpkg",
   forest_reproj |-> "forest_proj.tif",
   countries_reproj |-> "countries_proj.gpkg",
   buffer_roads |-> "roads_buffer_10km.gpkg",
   buffer_rivers |-> "rivers_buffer_10km.gpkg",
   union_buffers_path |-> "union_buffers.gpkg",
   masked_forest_tif |-> "forest_10km_masked.tif",
   out_area_value_csv |-> "forest_area_value_by_country.csv"]

\* out_raster_path.replace('.tif', '_temp_mask.tif') for the masked raster
TempMaskPath == "forest_10km_masked_temp_mask.tif"

SourcePaths == {SourcePath[a] : a \in DOMAIN SourcePath}
OutputPaths == {OutputPath[a] : a \in DOMAIN OutputPath}
Paths == SourcePaths \cup OutputPaths \cup {TempMaskPath}
Attrs == DOMAIN SourcePath \cup DOMAIN OutputPath

\* an attribute of the project object that no task has set yet
Unset == ""

\* the project object as the caller configures it: the source paths only
NewProject ==
  [a \in Attrs |-> IF a \in DOMAIN SourcePath THEN SourcePath[a] ELSE Unset]

\* p.buffer_distance_m, mollweide target_pixel_size (metres) and the CRS names
BufferDistanceM == 10000
TargetPixelSize == <<300, -300>>
Mollweide == "World_Mollweide"
SourceCrs == "source"

(***************************************************************************)
(* Source data sets                                                        *)
(***************************************************************************)
\* a 2 x 2 block of class 60 inside non-forest classes (130 above, 10 elsewhere)
LulcBlock ==
  Raster([c \in Cells |->
            IF Row(c) \in {2, 3} /\ Col(c) \in {2, 3} THEN 60
            ELSE IF Row(c) = 1 THEN 130 ELSE 10],
         {0}, <<300, -300>>, SourceCrs)
\* a raster whose left column is forest (classes 50 and 90), the rest is not
LulcEdge ==
  Raster([c \in Cells |->
            IF Col(c) = 1 THEN (IF Row(c) = 1 THEN 50 ELSE 90)
            ELSE IF Col(c) = 2 THEN 49 ELSE 91],
         {0}, <<300, -300>>, SourceCrs)
\* a road along the first row, a river along the first column
Roads ==
  Vector({"geometry"},
         << [geom |-> {c \in Cells : Row(c) = 1}, label |-> NoLabel] >>, SourceCrs)
Rivers ==
  Vector({"geometry"},
         << [geom |-> {c \in Cells : Col(c) = 1}, label |-> NoLabel] >>, SourceCrs)
\* one country polygon that covers the whole raster
CountriesWhole ==
  Vector(GdfColumns, << [geom |-> Cells, label |-> "BRA"] >>, SourceCrs)
\* the same layer without its identifier column
CountriesNoLabel ==
  Vector(GdfColumns \ {LabelCol}, << [geom |-> Cells, label |-> NoLabel] >>, SourceCrs)
\* value tables: 1000 per hectare, 5 per hectare, and one without column '2019'
Table1000 ==
  Table(CsvColumns, << [iso3_r250_id |-> 76, iso3_r250_label |-> "BRA",
                        iso3_r250_name |-> "Brazil", y2019 |-> "1000"] >>)
Table5 ==
  Table(CsvColumns, << [iso3_r250_id |-> 76, iso3_r250_label |-> "BRA",
                        iso3_r250_name |-> "Brazil", y2019 |-> "5"] >>)
TableNoRate ==
  Table(CsvColumns \ {RateCol},
        << [iso3_r250_id |-> 76, iso3_r250_label |-> "BRA",
            iso3_r250_name |-> "Brazil", y2019 |-> ""] >>)

\* what each source path can hold; Absent is a file that is not there
SourceChoices ==
  [raw_lulc_path |-> {LulcBlock, LulcEdge, Absent},
   roads_shp |-> {Roads},
   rivers_shp |-> {Rivers},
   countries_shp |-> {CountriesWhole, CountriesNoLabel, Absent},
   value_csv |-> {Table1000, Table5, TableNoRate, Absent}]

(***************************************************************************)
(* The geospatial libraries, on grids                                      *)
(***************************************************************************)
\* hb.raster_calculator_hb([(input_lulc_path, 1)], forest_mask_op, ...): the
\* operation on every block of the grid, same extent, resolution and CRS
raster_calculator_hb(in, nodata_val) ==
  Raster(forest_mask_op(in.px), {nodata_val}, in.pixel_size, in.crs)

\* hb.warp_raster_hb(..., 'near', ...) followed by gdal_edit.py -a_nodata:
\* nearest-neighbour keeps every cell value of a grid that already has the
\* target pixel size; the nodata value of the input is set on the output
warp_raster(in, target_pixel_size, target_crs) ==
  LET input_nodata == IF in.nodata # {} THEN Val(in.nodata) ELSE 0
  IN Raster(in.px, {input_nodata}, target_pixel_size, target_crs)

\* pgp.reproject_vector: a coordinate transform of the same features
reproject_features(in, target_crs) ==
  Vector(in.columns, in.features, target_crs)

\* GeoSeries.buffer(d): every cell whose centre is within d metres of a cell
\* of the geometry, on the grid of the target pixel size
buffer(geom, distance_m) ==
  {c \in Cells :
     \E d \in geom :
       ((Row(c) - Row(d)) * (Row(c) - Row(d)) + (Col(c) - Col(d)) * (Col(c) - Col(d)))
         * TargetPixelSize[1] * TargetPixelSize[1] <= distance_m * distance_m}

\* shapely.ops.unary_union of a sequence of geometries
unary_union(geoms) == UNION {geoms[i] : i \in DOMAIN geoms}

\* hb.create_valid_mask_from_vector_path(all_touched=False): 1 inside, 0 outside
create_valid_mask(polygon, raster) ==
  LET inside == unary_union([i \in DOMAIN polygon.features |-> polygon.features[i].geom])
  IN Raster([c \in Cells |-> IF c \in inside THEN 1 ELSE 0],
            {}, raster.pixel_size, raster.crs)

\* a faulty variant of apply_mask: the cells outside the polygon are set to 0
apply_mask_zero(mask_array, raster_array, nodata) ==
  [c \in DOMAIN raster_array |->
     IF mask_array[c] = 1 THEN raster_array[c] ELSE 0]

\* a faulty variant of apply_mask: the cells outside the polygon are the ones kept
apply_mask_inverted(mask_array, raster_array, nodata) ==
  [c \in DOMAIN raster_array |->
     IF mask_array[c] = 0 THEN raster_array[c] ELSE nodata]

\* np.where(mask_array == 1, raster_array, nodata)
apply_mask(mask_array, raster_array, nodata) ==
  [c \in DOMAIN raster_array |->
     IF mask_array[c] = 1 THEN raster_array[c] ELSE nodata]

RECURSIVE sum_cells(_, _)
sum_cells(px, S) ==
  IF S = {} THEN 0
  ELSE LET c == CHOOSE x \in S : TRUE
       IN px[c] + sum_cells(px, S \ {c})

\* rasterstats.zonal_stats(gdf, raster, stats=['sum', 'count'], nodata=nodata):
\* per feature the sum and the number of the cells that are not nodata
zonal_stats(features, raster, nodata) ==
  [i \in DOMAIN features |->
     LET valid == {c \in features[i].geom : raster.px[c] # nodata}
     IN [sum |-> IF valid = {} THEN NaN ELSE {sum_cells(raster.px, valid)},
         count |-> Cardinality(valid)]]

(***************************************************************************)
(* The stage functions of ntfp_functions.py                                *)
(*                                                                         *)
(* Each takes the directory and returns the directory it leaves, the paths *)
(* it wrote and whether it raised.                                         *)
(***************************************************************************)
Ok(files, written) ==
  [files |-> files, written |-> written, raised |-> FALSE, error |-> NoError]
Fail(files, written, e) ==
  [files |-> files, written |-> written, raised |-> TRUE, error |-> e]

\* the library's error for a file it cannot open
ReadError(path) ==
  [type |-> "ReadError", table |-> path, columns |-> {},
   lists_available |-> FALSE, available |-> {}]
\* Python's AttributeError for a name that an object does not have
AttributeError(name) ==
  [type |-> "AttributeError", table |-> name, columns |-> {},
   lists_available |-> FALSE, available |-> {}]

\* a faulty variant of os_path_exists: the final table is never found, so the
\* last stage always recomputes it
os_path_exists_but_table(files, path) ==
  files[path].kind # "absent" /\ path # "forest_area_value_by_country.csv"

\* a faulty variant of os_path_exists: the output is never found, nothing is skipped
os_path_exists_never(files, path) == FALSE

\* os.path.exists(path)
os_path_exists(files, path) == files[path].kind # "absent"

create_forest_mask(files, input_lulc_path, output_forest_path) ==
  IF os_path_exists(files, output_forest_path) THEN Ok(files, {})
  ELSE IF files[input_lulc_path].kind # "raster"
    THEN Fail(files, {}, ReadError(input_lulc_path))
  ELSE Ok([files EXCEPT ![output_forest_path] =
             raster_calculator_hb(files[input_lulc_path], 0)],
          {output_forest_path})

reproject_raster(files, in_raster_path, out_raster_path, target_crs_wkt, target_pixel_size) ==
  IF os_path_exists(files, out_raster_path) THEN Ok(files, {})
  ELSE IF files[in_raster_path].kind # "raster"
    THEN Fail(files, {}, ReadError(in_raster_path))
  ELSE Ok([files EXCEPT ![out_raster_path] =
             warp_raster(files[in_raster_path], target_pixel_size, target_crs_wkt)],
          {out_raster_path})

reproject_vector(files, in_vector_path, out_vector_path, target_crs_wkt) ==
  IF os_path_exists(files, out_vector_path) THEN Ok(files, {})
  ELSE IF files[in_vector_path].kind # "vector"
    THEN Fail(files, {}, ReadError(in_vector_path))
  ELSE Ok([files EXCEPT ![out_vector_path] =
             reproject_features(files[in_vector_path], target_crs_wkt)],
          {out_vector_path})

buffer_vector(files, in_vector_path, out_vector_path, buffer_distance_m) ==
  IF os_path_exists(files, out_vector_path) THEN Ok(files, {})
  ELSE IF files[in_vector_path].kind # "vector"
    THEN Fail(files, {}, ReadError(in_vector_path))
  ELSE
    LET gdf == files[in_vector_path]
        merged_geom == unary_union([i \in DOMAIN gdf.features |->
                                      buffer(gdf.features[i].geom, buffer_distance_m)])
    IN Ok([files EXCEPT ![out_vector_path] =
             Vector({"geometry"}, << [geom |-> merged_geom, label |-> NoLabel] >>,
                    gdf.crs)],
          {out_vector_path})

union_buffers(files, buffer_paths, out_union_path) ==
  IF os_path_exists(files, out_union_path) THEN Ok(files, {})
  ELSE IF \E i \in DOMAIN buffer_paths : files[buffer_paths[i]].kind # "vector"
    THEN Fail(files, {},
              ReadError(buffer_paths[CHOOSE i \in DOMAIN buffer_paths :
                                       /\ files[buffer_paths[i]].kind # "vector"
                                       /\ \A j \in 1..(i - 1) :
                                            files[buffer_paths[j]].kind = "vector"]))
  ELSE
    LET all_geoms == [i \in DOMAIN buffer_paths |->
                        unary_union([k \in DOMAIN files[buffer_paths[i]].features |->
                                       files[buffer_paths[i]].features[k].geom])]
    IN Ok([files EXCEPT ![out_union_path] =
             Vector({"geometry"},
                    << [geom |-> unary_union(all_geoms), label |-> NoLabel] >>,
                    files[buffer_paths[1]].crs)],
          {out_union_path})

\* the temporary mask is written, used and removed; a raster without a nodata
\* value fails in the calculator, after the temporary mask was written
mask_raster_by_polygon(files, in_raster_path, in_polygon_path, out_raster_path) ==
  IF os_path_exists(files, out_raster_path) THEN Ok(files, {})
  ELSE IF files[in_raster_path].kind # "raster"
    THEN Fail(files, {}, ReadError(in_raster_path))
  ELSE IF files[in_polygon_path].kind # "vector"
    THEN Fail(files, {}, ReadError(in_polygon_path))
  ELSE
    LET raster == files[in_raster_path]
        temp_mask == create_valid_mask(files[in_polygon_path], raster)
    IN IF raster.nodata = {}
         THEN Fail([files EXCEPT ![TempMaskPath] = temp_mask], {TempMaskPath},
                   ReadError(TempMaskPath))
         ELSE Ok([files EXCEPT
                    ![out_raster_path] =
                       Raster(apply_mask(temp_mask.px, raster.px, Val(raster.nodata)),
                              raster.nodata, raster.pixel_size, raster.crs),
                    ![TempMaskPath] = Absent],
                 {out_raster_path})

\* the columns of the exported table
OutColumns ==
  {IdCol, LabelCol, NameCol, "forest_area_ha", "value_per_hectare", "ntfp"}

area_by_country(files, masked_raster_path, countries_reproj_path, value_csv_path, out_csv_path) ==
  IF os_path_exists(files, out_csv_path) THEN Ok(files, {})
  ELSE IF files[countries_reproj_path].kind # "vector"
    THEN Fail(files, {}, ReadError(countries_reproj_path))
  ELSE IF files[value_csv_path].kind # "table"
    THEN Fail(files, {}, ReadError(value_csv_path))
  ELSE IF files[masked_raster_path].kind # "raster"
    THEN Fail(files, {}, ReadError(masked_raster_path))
  ELSE
    LET gdf == files[countries_reproj_path]
        df_price == files[value_csv_path]
        raster == files[masked_raster_path]
        \* raster_info['nodata'][0]; zonal_stats falls back to -999 for None
        nodata_val == IF raster.nodata # {} THEN Val(raster.nodata) ELSE -999
        frames == area_by_country_frames(
                    gdf.columns,
                    [i \in DOMAIN gdf.features |-> gdf.features[i].label],
                    zonal_stats(gdf.features, raster, nodata_val),
                    [columns |-> df_price.columns, rows |-> df_price.rows],
                    raster.pixel_size)
    IN IF frames.state = "raised"
         THEN Fail(files, {}, frames.error)
         ELSE Ok([files EXCEPT ![out_csv_path] = Table(OutColumns, frames.df_final)],
                 {out_csv_path})

(***************************************************************************)
(* run_ntfp.py and ntfp_tasks.py: the task tree and the task functions     *)
(***************************************************************************)
\* the task functions ntfp_tasks defines, in the order of the file
NtfpTasks ==
  <<"task_create_forest_mask", "task_reproject_inputs",
    "task_buffer_and_union", "task_mask_and_calculate_stats">>

\* the names build_task_tree looks up in ntfp_tasks, in the order of its calls
TreeNames ==
  <<"task_preprocess_forest_data", "task_reproject_inputs",
    "task_buffer_and_union", "task_calculate_ntfp_value">>

\* the value of __name__ when run_ntfp.py is run as a script or is imported
ModuleNames == {"__main__", "run_ntfp"}

\* build_task_tree: p.add_task(ntfp_tasks.<name>) for each name in turn; the
\* lookup of a name the module does not define raises AttributeError
RECURSIVE build_task_tree(_, _)
build_task_tree(tasks, i) ==
  IF i > Len(TreeNames)
    THEN [tasks |-> tasks, raised |-> FALSE, error |-> NoError]
  ELSE IF \A k \in DOMAIN NtfpTasks : NtfpTasks[k] # TreeNames[i]
    THEN [tasks |-> tasks, raised |-> TRUE, error |-> AttributeError(TreeNames[i])]
  ELSE build_task_tree(Append(tasks, TreeNames[i]), i + 1)

\* the output attributes each task function sets before it calls its stages
TaskAttrs ==
  [task_create_forest_mask |-> {"forest_tif_path"},
   task_reproject_inputs |->
     {"roads_reproj", "rivers_reproj", "forest_reproj", "countries_reproj"},
   task_buffer_and_union |-> {"buffer_roads", "buffer_rivers", "union_buffers_path"},
   task_mask_and_calculate_stats |-> {"masked_forest_tif", "out_area_value_csv"}]

\* the first stage call of each task function
FirstCall ==
  [task_create_forest_mask |-> "create_forest_mask",
   task_reproject_inputs |-> "reproject_vector:roads",
   task_buffer_and_union |-> "buffer_vector:roads",
   task_mask_and_calculate_stats |-> "mask_raster_by_polygon"]

NoErr == [task |-> "", error |-> NoError]
Stopped == {"idle", "done", "raised", "exited", "attribute_error"}

PipeIdle ==
  /\ fs = <<>>
  /\ written_in = <<>>
  /\ p = <<>>
  /\ pc = "unused"
  /\ run = 0
  /\ edits = 0
  /\ executed = <<>>
  /\ task_tree = <<>>
  /\ err = NoErr
  /\ rerun = FALSE

\* an empty working directory, the source files as drawn, nothing started
PipeInit ==
  /\ \E lulc \in SourceChoices.raw_lulc_path,
        countries \in SourceChoices.countries_shp,
        csv \in SourceChoices.value_csv :
       fs = [q \in Paths |->
               CASE q = SourcePath.raw_lulc_path -> lulc
                 [] q = SourcePath.roads_shp -> Roads
                 [] q = SourcePath.rivers_shp -> Rivers
                 [] q = SourcePath.countries_shp -> countries
                 [] q = SourcePath.value_csv -> csv
                 [] OTHER -> Absent]
  /\ written_in = [q \in Paths |-> 0]
  /\ p = NewProject
  /\ pc = "idle"
  /\ run = 0
  /\ edits = 0
  /\ executed = <<>>
  /\ task_tree = <<>>
  /\ err = NoErr
  /\ rerun = FALSE

\* p.execute() on a task tree that holds the task functions of ntfp_tasks:
\* a new project object, the tasks run in the order they were added
Execute ==
  /\ pc \in Stopped
  /\ run < MaxRuns
  /\ run' = run + 1
  /\ p' = NewProject
  /\ task_tree' = NtfpTasks
  /\ executed' = <<>>
  /\ err' = NoErr
  /\ rerun' = (pc = "done")
  /\ pc' = NtfpTasks[1]
  /\ UNCHANGED <<fs, written_in, edits, maskVars, areaVars>>

\* the task that runs once the current one has returned
AfterTask ==
  IF Len(executed) < Len(task_tree) THEN task_tree[Len(executed) + 1] ELSE "done"

\* the head of a task function: its assignments to the project object
TaskEntry(task) ==
  /\ pc = task
  /\ p' = [a \in Attrs |-> IF a \in TaskAttrs[task] THEN OutputPath[a] ELSE p[a]]
  /\ executed' = Append(executed, task)
  /\ pc' = FirstCall[task]
  /\ UNCHANGED <<fs, written_in, run, edits, task_tree, err, rerun, maskVars, areaVars>>

Task_create_forest_mask ==
  /\ pc = "task_create_forest_mask"
  /\ TaskEntry("task_create_forest_mask")

Task_reproject_inputs ==
  /\ pc = "task_reproject_inputs"
  /\ TaskEntry("task_reproject_inputs")

Task_buffer_and_union ==
  /\ pc = "task_buffer_and_union"
  /\ TaskEntry("task_buffer_and_union")

Task_mask_and_calculate_stats ==
  /\ pc = "task_mask_and_calculate_stats"
  /\ TaskEntry("task_mask_and_calculate_stats")

\* a stage call that reads attributes of p: an attribute not yet set raises
WithAttrs(attrs, r) ==
  IF \E a \in attrs : p[a] = Unset
    THEN Fail(fs, {}, AttributeError(CHOOSE a \in attrs : p[a] = Unset))
    ELSE r

\* one stage call at call site `site`, with result r, going on to `next`
StageCall(site, r, next) ==
  /\ pc = site
  /\ fs' = r.files
  /\ written_in' = [q \in Paths |-> IF q \in r.written THEN run ELSE written_in[q]]
  /\ IF r.raised
       THEN /\ pc' = "raised"
            /\ err' = [task |-> executed[Len(executed)], error |-> r.error]
       ELSE /\ pc' = next
            /\ err' = err
  /\ UNCHANGED <<p, run, edits, executed, task_tree, rerun, maskVars, areaVars>>

\* the three reproject_vector calls of task_reproject_inputs, in order
ReprojectVectorCalls ==
  << [site |-> "reproject_vector:roads", in |-> "roads_shp",
      out |-> "roads_reproj", next |-> "reproject_vector:rivers"],
     [site |-> "reproject_vector:rivers", in |-> "rivers_shp",
      out |-> "rivers_reproj", next |-> "reproject_vector:countries"],
     [site |-> "reproject_vector:countries", in |-> "countries_shp",
      out |-> "countries_reproj", next |-> "reproject_raster"] >>

\* the two buffer_vector calls of task_buffer_and_union, in order
BufferVectorCalls ==
  << [site |-> "buffer_vector:roads", in |-> "roads_reproj",
      out |-> "buffer_roads", next |-> "buffer_vector:rivers"],
     [site |-> "buffer_vector:rivers", in |-> "rivers_reproj",
      out |-> "buffer_rivers", next |-> "union_buffers"] >>

Call_create_forest_mask ==
  /\ pc = "create_forest_mask"
  /\ StageCall("create_forest_mask",
               WithAttrs({"raw_lulc_path", "forest_tif_path"},
                         create_forest_mask(fs, p.raw_lulc_path, p.forest_tif_path)),
               AfterTask)

Call_reproject_vector ==
  \E i \in DOMAIN ReprojectVectorCalls :
    LET c == ReprojectVectorCalls[i]
    IN /\ pc = c.site
       /\ StageCall(c.site,
                    WithAttrs({c.in, c.out},
                              reproject_vector(fs, p[c.in], p[c.out], Mollweide)),
                    c.next)

Call_reproject_raster ==
  /\ pc = "reproject_raster"
  /\ StageCall("reproject_raster",
               WithAttrs({"forest_tif_path", "forest_reproj"},
                         reproject_raster(fs, p.forest_tif_path, p.forest_reproj,
                                          Mollweide, TargetPixelSize)),
               AfterTask)

Call_buffer_vector ==
  \E i \in DOMAIN BufferVectorCalls :
    LET c == BufferVectorCalls[i]
    IN /\ pc = c.site
       /\ StageCall(c.site,
                    WithAttrs({c.in, c.out},
                              buffer_vector(fs, p[c.in], p[c.out], BufferDistanceM)),
                    c.next)

Call_union_buffers ==
  /\ pc = "union_buffers"
  /\ StageCall("union_buffers",
               WithAttrs({"buffer_roads", "buffer_rivers", "union_buffers_path"},
                         union_buffers(fs, <<p.buffer_roads, p.buffer_rivers>>,
                                       p.union_buffers_path)),
               AfterTask)

Call_mask_raster_by_polygon ==
  /\ pc = "mask_raster_by_polygon"
  /\ StageCall("mask_raster_by_polygon",
               WithAttrs({"forest_reproj", "union_buffers_path", "masked_forest_tif"},
                         mask_raster_by_polygon(fs, p.forest_reproj,
                                                p.union_buffers_path,
                                                p.masked_forest_tif)),
               "area_by_country")

Call_area_by_country ==
  /\ pc = "area_by_country"
  /\ StageCall("area_by_country",
               WithAttrs({"masked_forest_tif", "countries_reproj", "value_csv",
                          "out_area_value_csv"},
                         area_by_country(fs, p.masked_forest_tif, p.countries_reproj,
                                         p.value_csv, p.out_area_value_csv)),
               AfterTask)

\* run_ntfp.py, module level: the block under `if __name__ == 'main':` builds
\* the task tree and executes it; any other __name__ falls through to the end
RunScript ==
  /\ pc \in Stopped
  /\ \E name \in ModuleNames :
       IF name = "main"
         THEN LET t == build_task_tree(<<>>, 1)
              IN /\ task_tree' = t.tasks
                 /\ executed' = <<>>
                 /\ p' = NewProject
                 /\ IF t.raised
                      THEN /\ pc' = "attribute_error"
                           /\ err' = [task |-> "build_task_tree", error |-> t.error]
                      ELSE /\ pc' = IF t.tasks = <<>> THEN "exited" ELSE t.tasks[1]
                           /\ err' = NoErr
         ELSE /\ pc' = "exited"
              /\ executed' = <<>>
              /\ task_tree' = <<>>
              /\ p' = NewProject
              /\ err' = NoErr
  /\ rerun' = FALSE
  /\ UNCHANGED <<fs, written_in, run, edits, maskVars, areaVars>>

\* build_task_tree(p) called by a module that imports run_ntfp
BuildTaskTree ==
  /\ pc \in Stopped
  /\ LET t == build_task_tree(<<>>, 1)
     IN /\ task_tree' = t.tasks
        /\ IF t.raised
             THEN /\ pc' = "attribute_error"
                  /\ err' = [task |-> "build_task_tree", error |-> t.error]
             ELSE /\ pc' = "idle"
                  /\ err' = NoErr
  /\ executed' = <<>>
  /\ p' = NewProject
  /\ rerun' = FALSE
  /\ UNCHANGED <<fs, written_in, run, edits, maskVars, areaVars>>

\* between runs the operator replaces (or removes) a source file
ReplaceInput ==
  /\ pc \in Stopped
  /\ edits < MaxEdits
  /\ \E a \in DOMAIN SourcePath :
       \E c \in SourceChoices[a] :
         /\ c # fs[SourcePath[a]]
         /\ fs' = [fs EXCEPT ![SourcePath[a]] = c]
  /\ edits' = edits + 1
  /\ pc' = "idle"
  /\ UNCHANGED <<written_in, p, run, executed, task_tree, err, rerun, maskVars, areaVars>>

\* between runs the operator deletes an output file of an earlier run
DeleteOutput ==
  /\ pc \in Stopped
  /\ edits < MaxEdits
  /\ \E o \in OutputPaths :
       /\ fs[o] # Absent
       /\ fs' = [fs EXCEPT ![o] = Absent]
       /\ written_in' = [written_in EXCEPT ![o] = 0]
  /\ edits' = edits + 1
  /\ pc' = "idle"
  /\ UNCHANGED <<p, run, executed, task_tree, err, rerun, maskVars, areaVars>>

(***************************************************************************)
(* Specifications                                                          *)
(***************************************************************************)
InitMask == MaskInit /\ AreaIdle /\ PipeIdle
NextMask == ApplyForestMaskOp
SpecMask == InitMask /\ [][NextMask]_vars

InitArea == AreaInit /\ MaskIdle /\ PipeIdle
NextArea == CallAreaByCountry
SpecArea == InitArea /\ [][NextArea]_vars

InitPipe == PipeInit /\ MaskIdle /\ AreaIdle
NextPipe ==
  \/ Execute
  \/ Task_create_forest_mask
  \/ Call_create_forest_mask
  \/ Task_reproject_inputs
  \/ Call_reproject_vector
  \/ Call_reproject_raster
  \/ Task_buffer_and_union
  \/ Call_buffer_vector
  \/ Call_union_buffers
  \/ Task_mask_and_calculate_stats
  \/ Call_mask_raster_by_polygon
  \/ Call_area_by_country
  \/ RunScript
  \/ BuildTaskTree
  \/ ReplaceInput
  \/ DeleteOutput
SpecPipe == InitPipe /\ [][NextPipe]_vars

(***************************************************************************)
(* SpecPoly: mask_raster_by_polygon on drawn rasters and polygons          *)
(***************************************************************************)
\* the nodata values drawn for the reprojected forest raster; {} is a raster
\* whose metadata carries none
NodataChoices == { {0}, {255}, {} }

\* task_mask_and_calculate_stats is about to call mask_raster_by_polygon: the
\* reprojected forest raster has forest (1) in the drawn columns, the union
\* polygon covers the drawn rows, and the masked raster does not exist yet
PolyInit ==
  /\ \E cols \in SUBSET (1..GridSize), rows \in SUBSET (1..GridSize),
        nodata \in NodataChoices :
       fs = [q \in Paths |->
               CASE q = OutputPath.forest_reproj ->
                      Raster([c \in Cells |-> IF Col(c) \in cols THEN 1 ELSE 0],
                             nodata, TargetPixelSize, Mollweide)
                 [] q = OutputPath.union_buffers_path ->
                      Vector({"geometry"},
                             << [geom |-> {c \in Cells : Row(c) \in rows},
                                 label |-> NoLabel] >>,
                             Mollweide)
                 [] OTHER -> Absent]
  /\ written_in = [q \in Paths |-> 0]
  /\ p = [a \in Attrs |->
            IF a \in DOMAIN SourcePath THEN SourcePath[a] ELSE OutputPath[a]]
  /\ pc = "mask_raster_by_polygon"
  /\ run = 1
  /\ edits = 0
  /\ executed = NtfpTasks
  /\ task_tree = NtfpTasks
  /\ err = NoErr
  /\ rerun = FALSE

InitPoly == PolyInit /\ MaskIdle /\ AreaIdle
NextPoly == Call_mask_raster_by_polygon
SpecPoly == InitPoly /\ [][NextPoly]_vars

(***************************************************************************)
(* Properties of forest_mask_op (SpecMask)                                 *)
(***************************************************************************)
\* C1: every pixel of the forest mask is 0 or 1, and it is 1 exactly when the
\* land-cover value lies in 50..90, both bounds included.
C1_ForestMaskIffInRange ==
  forest_array # <<>> =>
    \A i \in DOMAIN lulc_array :
      /\ forest_array[i] \in {0, 1}
      /\ forest_array[i] = 1 <=> (50 <= lulc_array[i] /\ lulc_array[i] <= 90)

\* the lower boundary value 50 has been classified as forest
C1_Witness ==
  /\ forest_array # <<>>
  /\ lulc_array[1] = 50
  /\ forest_array[1] = 1

(***************************************************************************)
(* Properties of area_by_country (SpecArea)                                *)
(***************************************************************************)
AreaCalled == area_out.state # "pending"
AreaReturned == area_out.state = "returned"

\* the identifiers that label a feature of the country layer
AreaLabels ==
  {area_in.features[i].label : i \in DOMAIN area_in.features} \ {NoLabel}
\* the identifiers that label a row of the value table
PriceLabels ==
  {area_in.df_price.rows[j].iso3_r250_label : j \in DOMAIN area_in.df_price.rows}
    \ {NoLabel}

\* the zonal pixel sum of feature i, a missing sum counting as nothing
ZonalSum(i) ==
  IF area_in.features[i].stat.sum = {} THEN 0
  ELSE Val(area_in.features[i].stat.sum)

RECURSIVE SumOfZonalSums(_)
SumOfZonalSums(S) ==
  IF S = {} THEN 0
  ELSE LET i == CHOOSE x \in S : TRUE
       IN ZonalSum(i) + SumOfZonalSums(S \ {i})

AbsPixelArea ==
  LET a == area_in.pixel_size[1] * area_in.pixel_size[2]
  IN IF a < 0 THEN 0 - a ELSE a

\* C3: the aggregated area table holds exactly one row per identifier that
\* labels a feature; its pixel count is the sum of the zonal sums of the
\* features with that identifier and its area is count * |w * h| / 10000.
C3_OneAreaRowPerCountry ==
  (AreaCalled /\ LabelCol \in area_in.gdf_columns
              /\ LabelCol \in area_in.df_price.columns) =>
    \A k \in AreaLabels :
      LET rows == {r \in DOMAIN area_out.df_stats :
                     area_out.df_stats[r].iso3_r250_label = k}
          feats == {i \in DOMAIN area_in.features : area_in.features[i].label = k}
      IN /\ Cardinality(rows) = 1
         /\ \A r \in rows :
              /\ area_out.df_stats[r].forest_pixel_count = SumOfZonalSums(feats)
              /\ area_out.df_stats[r].forest_area_ha * 10000
                   = SumOfZonalSums(feats) * AbsPixelArea

\* two features of one country with sums 100 and 150 were aggregated to 250
C3_Witness ==
  /\ AreaCalled
  /\ \E i, j \in DOMAIN area_in.features :
       /\ area_in.features[i] = [label |-> "BRA", stat |-> [sum |-> {100}, count |-> 100]]
       /\ area_in.features[j] = [label |-> "BRA", stat |-> [sum |-> {150}, count |-> 150]]
  /\ \E r \in DOMAIN area_out.df_stats :
       /\ area_out.df_stats[r].iso3_r250_label = "BRA"
       /\ area_out.df_stats[r].forest_pixel_count = 250

\* C4: a row of the joined table, and so of the final output, carries an
\* identifier found in both the area table and the value table, and its rate
\* is the rate of a value-table row of that identifier, never a stand-in.
C4_InnerJoin ==
  AreaReturned =>
    \A df \in {area_out.df_merged, area_out.df_final} :
      \A r \in DOMAIN df :
        /\ df[r].iso3_r250_label \in AreaLabels
        /\ df[r].iso3_r250_label \in PriceLabels
        /\ \E j \in DOMAIN area_in.df_price.rows :
             /\ area_in.df_price.rows[j].iso3_r250_label = df[r].iso3_r250_label
             /\ to_numeric(area_in.df_price.rows[j].y2019) = df[r].value_per_hectare

\* a country with area but no rate, one with a rate but no area, and one with
\* both went through the join, and only the last one was emitted
C4_Witness ==
  /\ AreaReturned
  /\ AreaLabels \ PriceLabels # {}
  /\ PriceLabels \ AreaLabels # {}
  /\ area_out.df_final # <<>>

C6_OneOutputRowPerCountry ==
  AreaReturned =>
    \A i, j \in DOMAIN area_out.df_final :
      area_out.df_final[i].iso3_r250_label = area_out.df_final[j].iso3_r250_label
        => i = j

\* C10: a call with an expected column absent raises an error that names the
\* table and the column and lists the table's columns, and writes no output.
C10_MissingColumnReported ==
  LET gdf_missing == {LabelCol} \ area_in.gdf_columns
      csv_missing == CsvColumns \ area_in.df_price.columns
  IN (AreaCalled /\ (gdf_missing # {} \/ csv_missing # {})) =>
       /\ area_out.state = "raised"
       /\ ~area_out.written
       /\ area_out.error.lists_available
       /\ area_out.error.columns # {}
       /\ \/ /\ area_out.error.table = "Vector"
             /\ area_out.error.columns \subseteq gdf_missing
             /\ area_out.error.available = area_in.gdf_columns
          \/ /\ area_out.error.table = "CSV"
             /\ area_out.error.columns \subseteq csv_missing
             /\ area_out.error.available = area_in.df_price.columns

(***************************************************************************)
(* Properties of the task functions and of run_ntfp.py (SpecPipe)          *)
(***************************************************************************)
\* the output path of the stage function called at each call site
StageOutput ==
  ("create_forest_mask" :> OutputPath.forest_tif_path)
  @@ ("reproject_vector:roads" :> OutputPath.roads_reproj)
  @@ ("reproject_vector:rivers" :> OutputPath.rivers_reproj)
  @@ ("reproject_vector:countries" :> OutputPath.countries_reproj)
  @@ ("reproject_raster" :> OutputPath.forest_reproj)
  @@ ("buffer_vector:roads" :> OutputPath.buffer_roads)
  @@ ("buffer_vector:rivers" :> OutputPath.buffer_rivers)
  @@ ("union_buffers" :> OutputPath.union_buffers_path)
  @@ ("mask_raster_by_polygon" :> OutputPath.masked_forest_tif)
  @@ ("area_by_country" :> OutputPath.out_area_value_csv)

\* C2: a stage function called while its output path exists returns without
\* touching any file, and a run started right after a complete run leaves
\* every file as it was.
C2_ExistingOutputIsSkipped ==
  /\ [][\A site \in DOMAIN StageOutput :
          (pc = site /\ fs[StageOutput[site]] # Absent)
            => (fs' = fs /\ written_in' = written_in /\ pc' # "raised")]_vars
  /\ [][(rerun /\ pc \notin Stopped)
          => (fs' = fs /\ written_in' = written_in /\ pc' # "raised")]_vars

\* a second run, started right after a complete one, has finished
C2_Witness ==
  /\ rerun
  /\ pc = "done"
  /\ run >= 2
  /\ \A o \in OutputPaths : fs[o] # Absent /\ written_in[o] = 1

\* the 2 x 2 forest block, one country over the whole raster, 1000 per hectare,
\* run once in an empty working directory
EndToEndScenario ==
  /\ run = 1
  /\ pc = "done"
  /\ fs[SourcePath.raw_lulc_path] = LulcBlock
  /\ fs[SourcePath.countries_shp] = CountriesWhole
  /\ fs[SourcePath.value_csv] = Table1000

\* C7: in the end-to-end scenario the final table holds one row, for that
\* country, with forest_area_ha = 36 and value 36000.
C7_EndToEnd ==
  EndToEndScenario =>
    fs[OutputPath.out_area_value_csv] =
      Table(OutColumns,
            << [iso3_r250_id |-> 76, iso3_r250_label |-> "BRA",
                iso3_r250_name |-> "Brazil", forest_area_ha |-> 36,
                value_per_hectare |-> {1000}, ntfp |-> {36000}] >>)

\* the scenario has run to its end and the final table was written in that run
C7_Witness ==
  /\ EndToEndScenario
  /\ written_in[OutputPath.out_area_value_csv] = 1
  /\ Cardinality({c \in Cells : fs[OutputPath.forest_tif_path].px[c] = 1}) = 4

\* C8: once run_ntfp.py has run to its end, the four stages have been executed,
\* one after the other, in the order forest mask, reprojection, buffer/union,
\* masking + valuation.
C8_ScriptRunsFourStages ==
  pc = "exited" => executed = NtfpTasks

\* C9: a stage that raises has left none of its output files, and no
\* temporary file, behind.
C9_AllOrNothing ==
  pc = "raised" =>
    /\ \A a \in TaskAttrs[err.task] : written_in[OutputPath[a]] # run
    /\ fs[TempMaskPath] = Absent

(***************************************************************************)
(* Properties of mask_raster_by_polygon (SpecPoly)                         *)
(***************************************************************************)
\* the cells the union polygon covers
InsidePolygon ==
  UNION {fs[OutputPath.union_buffers_path].features[i].geom :
           i \in DOMAIN fs[OutputPath.union_buffers_path].features}

\* C11: once mask_raster_by_polygon has completed, the masked raster has the
\* grid of the input, every cell outside the polygon holds the input's nodata
\* value, every cell inside holds its input value, and the temporary mask
\* file is gone.
C11_MaskKeepsInsideOnly ==
  pc = "area_by_country" =>
    LET in == fs[OutputPath.forest_reproj]
        out == fs[OutputPath.masked_forest_tif]
    IN /\ out.kind = "raster"
       /\ DOMAIN out.px = DOMAIN in.px
       /\ out.pixel_size = in.pixel_size
       /\ \A c \in Cells :
            out.px[c] = IF c \in InsidePolygon THEN in.px[c] ELSE Val(in.nodata)
       /\ fs[TempMaskPath] = Absent

\* a polygon that covers part of the grid was applied: a forest cell inside
\* kept its value, a forest cell outside became nodata (255)
C11_Witness ==
  /\ pc = "area_by_country"
  /\ written_in[OutputPath.masked_forest_tif] = run
  /\ \E c \in InsidePolygon :
       /\ fs[OutputPath.forest_reproj].px[c] = 1
       /\ fs[OutputPath.masked_forest_tif].px[c] = 1
  /\ \E c \in Cells \ InsidePolygon :
       /\ fs[OutputPath.forest_reproj].px[c] = 1
       /\ fs[OutputPath.masked_forest_tif].px[c] = 255

(***************************************************************************)
(* Stale outputs across runs (SpecPipe)                                    *)
(***************************************************************************)
\* the stage calls of one run, in the order the task functions make them
CallOrder ==
  <<"create_forest_mask", "reproject_vector:roads", "reproject_vector:rivers",
    "reproject_vector:countries", "reproject_raster", "buffer_vector:roads",
    "buffer_vector:rivers", "union_buffers", "mask_raster_by_polygon",
    "area_by_country">>

\* the project object once every task has set its attributes
FullProject ==
  [a \in Attrs |-> IF a \in DOMAIN SourcePath THEN SourcePath[a] ELSE OutputPath[a]]

\* the result of the stage call at `site` on the directory `files`
SiteResult(files, site) ==
  LET q == FullProject
  IN CASE site = "create_forest_mask" ->
            create_forest_mask(files, q.raw_lulc_path, q.forest_tif_path)
       [] site = "reproject_vector:roads" ->
            reproject_vector(files, q.roads_shp, q.roads_reproj, Mollweide)
       [] site = "reproject_vector:rivers" ->
            reproject_vector(files, q.rivers_shp, q.rivers_reproj, Mollweide)
       [] site = "reproject_vector:countries" ->
            reproject_vector(files, q.countries_shp, q.countries_reproj, Mollweide)
       [] site = "reproject_raster" ->
            reproject_raster(files, q.forest_tif_path, q.forest_reproj, Mollweide,
                             TargetPixelSize)
       [] site = "buffer_vector:roads" ->
            buffer_vector(files, q.roads_reproj, q.buffer_roads, BufferDistanceM)
       [] site = "buffer_vector:rivers" ->
            buffer_vector(files, q.rivers_reproj, q.buffer_rivers, BufferDistanceM)
       [] site = "union_buffers" ->
            union_buffers(files, <<q.buffer_roads, q.buffer_rivers>>,
                          q.union_buffers_path)
       [] site = "mask_raster_by_polygon" ->
            mask_raster_by_polygon(files, q.forest_reproj, q.union_buffers_path,
                                   q.masked_forest_tif)
       [] site = "area_by_country" ->
            area_by_country(files, q.masked_forest_tif, q.countries_reproj,
                            q.value_csv, q.out_area_value_csv)

\* the directory a run leaves when it starts at call i on `files`; it stops
\* at the first call that raises
RECURSIVE RunFrom(_, _)
RunFrom(files, i) ==
  IF i > Len(CallOrder) THEN files
  ELSE LET r == SiteResult(files, CallOrder[i])
       IN IF r.raised THEN r.files ELSE RunFrom(r.files, i + 1)

\* the final table of a run on the current source files in an empty
\* working directory
FreshTable ==
  RunFrom([q \in Paths |-> IF q \in SourcePaths THEN fs[q] ELSE Absent], 1)
    [OutputPath.out_area_value_csv]

\* the step leaves every file as it was and does not raise
Skipped == fs' = fs /\ written_in' = written_in /\ pc' # "raised"

\* C12: a stage call skips exactly when its own output path exists, whatever
\* its inputs are; so during a run a final table that exists is left as it
\* was, also when a source changed or an upstream output was regenerated.
C12_SkipDependsOnOutputOnly ==
  /\ [][\A site \in DOMAIN StageOutput :
          pc = site => (Skipped <=> fs[StageOutput[site]] # Absent)]_vars
  /\ [][(pc \notin Stopped /\ fs[OutputPath.out_area_value_csv] # Absent)
          => fs'[OutputPath.out_area_value_csv] = fs[OutputPath.out_area_value_csv]]_vars

\* a later run has finished in which an upstream output was regenerated while
\* the final table of an earlier run was skipped, and that table is not the
\* one a fresh run on the current source files gives
C12_Witness ==
  /\ pc = "done"
  /\ run >= 2
  /\ written_in[OutputPath.out_area_value_csv] < run
  /\ \E o \in OutputPaths : written_in[o] = run
  /\ FreshTable # Absent
  /\ fs[OutputPath.out_area_value_csv] # FreshTable

====
